---- MODULE Spec2Model ----
(***************************************************************************)
(* Model of the token lifecycle of the OpenAPI proxy (src/app.py): the     *)
(* module-level CONFIG and TOKEN_CACHE dictionaries, get_token(), the      *)
(* /company-info/<vat_code> view with its flask-caching response cache,    *)
(* and the threads of the Flask server that run the view concurrently.     *)
(* Every access to shared state (TOKEN_CACHE, the response cache) is one   *)
(* step of the thread that performs it; the program counters are named     *)
(* after the line of src/app.py the thread is about to execute.            *)
(***************************************************************************)
EXTENDS Integers, Sequences, FiniteSets, TLC

(* ---------------------------------------------------------------- values *)

\* Python's None wherever a token, an e-mail or an API key may be absent.
None == "None"

\* The local variable `token` of company_info before line 169 assigns it.
Unset == "unset"

\* TOKEN_CACHE["expiry"] before the first assignment (None in the source).
NoExpiry == 0 - 1

\* The configured OPENAPI_STATIC_TOKEN of a Static-mode deployment.
StaticTokenValue == "S"

\* CONFIG["max_retries"]: declared at line 32 and read nowhere.
max_retries == 3

\* CONFIG["token_refresh"] = timedelta(minutes=55), in seconds.
token_refresh == 3300

\* CACHE_DEFAULT_TIMEOUT and @cache.cached(timeout=300), in seconds.
CACHE_DEFAULT_TIMEOUT == 300

(* ---------------------------------------------------------------- bounds *)

\* The clock advances at most MaxTicks times.
MaxTicks == 2

\* The token endpoint receives at most MaxCalls POST requests.
MaxCalls == 2

\* The request threads of the server.
Threads == {"r1", "r2"}

\* VAT codes of the requests. A malformed code is answered 400 at line 163 and
\* never reaches get_token(); the requests modelled carry a well-formed one.
VatGood == <<"1","2","3","4","5","6","7","8","9","0","1">>
VatCodes == {VatGood}

\* HTTP error statuses an endpoint may answer with.
ErrorStatuses == {401, 500}

VARIABLES
    CONFIG,        \* [email, api_key, static_token], fixed at start-up
    TOKEN_CACHE,   \* [value, expiry, refresh_count]
    cache,         \* the response cache: VAT code -> NoEntry or [rv, expires]
    now,           \* the wall clock, in seconds
    ticks,         \* how many times the clock has advanced
    calls,         \* POST requests received by the token endpoint
    pc,            \* per thread: the line it is about to execute
    vat,           \* per thread: vat_code of the request
    token,         \* per thread: the local `token` of company_info
    posts,         \* per thread: POSTs made by the current get_token() call
    req,           \* per thread: which POST of the token endpoint's it awaits
    rc,            \* per thread: refresh_count as read by line 71
    rv,            \* per thread: the response of the request
    lastStored,    \* history: the token stored by the latest line 69
    invalidated    \* history: a 401 cleared the token since the latest store

vars == <<CONFIG, TOKEN_CACHE, cache, now, ticks, calls, req, pc, vat, token,
          posts, rc, rv, lastStored, invalidated>>

shared == <<TOKEN_CACHE, lastStored, invalidated>>
clock == <<now, ticks>>
endpoint == <<calls, req>>

(* --------------------------------------------------------------- helpers *)

\* Python truthiness of a token value: None and "" are falsy.
Truthy(v) == v /= None /\ v /= ""

\* str.isdigit() over the characters of the VAT code.
IsDigit(c) == c \in {"0","1","2","3","4","5","6","7","8","9"}

\* Line 161: not vat_code.isdigit() or len(vat_code) != 11.
InvalidVat(v) ==
    \/ ~(Len(v) > 0 /\ \A i \in 1..Len(v) : IsDigit(v[i]))
    \/ Len(v) /= 11

\* Line 50: a truthy CONFIG["static_token"] selects Static mode.
StaticMode == Truthy(CONFIG.static_token)
DynamicMode == ~StaticMode

\* The token the token endpoint issues in answer to its n-th request.
FreshToken(n) == "T" \o ToString(n)

\* Responses of the view: (body, status). A 502 body carries the upstream status
\* as "code" and the upstream answer's text as "details": here, which endpoint
\* the text came from.
Response(status, code, details) == [status |-> status, code |-> code, details |-> details]
NoResponse == Response(0, 0, "")

NoEntry == [rv |-> NoResponse, expires |-> NoExpiry]

\* SimpleCache.get: the entry counts while its expiry lies in the future.
CacheHit(v) == cache[v].expires > now

\* SimpleCache.set with the decorator's timeout.
CacheSet(c, v, r) == [c EXCEPT ![v] = [rv |-> r, expires |-> now + CACHE_DEFAULT_TIMEOUT]]

(* ------------------------------------------------------------------ init *)

\* The deployments: Dynamic with credentials, Dynamic with the credentials
\* missing, Static.
Credentials(e, k, s) == [email |-> e, api_key |-> k, static_token |-> s]
Configs ==
    { Credentials("a@b.com", "k", None),
      Credentials(None, None, None),
      Credentials("a@b.com", "k", StaticTokenValue) }

Init ==
    /\ CONFIG \in Configs
    /\ TOKEN_CACHE = [value |-> None, expiry |-> NoExpiry, refresh_count |-> 0]
    /\ cache = [v \in VatCodes |-> NoEntry]
    /\ now = 0
    /\ ticks = 0
    /\ calls = 0
    /\ req = [t \in Threads |-> 0]
    /\ pc = [t \in Threads |-> "idle"]
    /\ vat = [t \in Threads |-> VatGood]
    /\ token = [t \in Threads |-> Unset]
    /\ posts = [t \in Threads |-> 0]
    /\ rc = [t \in Threads |-> 0]
    /\ rv = [t \in Threads |-> NoResponse]
    /\ lastStored = None
    /\ invalidated = FALSE

(* ------------------------------------------------------------- get_token *)

\* A variant of line 57 that refreshes at the instant of expiry already.
ExpiredAtBoundary(n, e) == n >= e

\* Line 57, second operand: datetime.now() > TOKEN_CACHE["expiry"].
Expired(n, e) == n > e

\* Line 69: TOKEN_CACHE["value"] = response.json().get("token").
StoreToken(tc, tok) == [tc EXCEPT !.value = tok]

\* A variant of line 70 that leaves out the refresh interval.
StoreExpiryNow(tc, n) == [tc EXCEPT !.expiry = n]

\* Lines 53 and 70: TOKEN_CACHE["expiry"] = datetime.now() + CONFIG["token_refresh"].
StoreExpiry(tc, n) == [tc EXCEPT !.expiry = n + token_refresh]

\* A variant of line 198 that expires the token instead of clearing it.
InvalidateByExpiry(tc) == [tc EXCEPT !.expiry = now]

\* Line 198: TOKEN_CACHE["value"] = None.
Invalidate(tc) == [tc EXCEPT !.value = None]

\* A thread moves from one line to another.
Goto(t, to) == pc' = [pc EXCEPT ![t] = to]

locals == <<vat, token, posts, rc, rv>>

\* Line 50 tests CONFIG alone: a truthy static token leads to line 51, anything
\* else to line 57.
EnterGetToken == IF StaticMode THEN "l51" ELSE "l57"

\* Line 51: if TOKEN_CACHE["value"] != CONFIG["static_token"].
L51(t) ==
    /\ pc[t] = "l51"
    /\ Goto(t, IF TOKEN_CACHE.value /= CONFIG.static_token THEN "l52" ELSE "l55")
    /\ UNCHANGED <<CONFIG, shared, cache, clock, endpoint, locals>>

\* Line 52: TOKEN_CACHE["value"] = CONFIG["static_token"].
L52(t) ==
    /\ pc[t] = "l52"
    /\ TOKEN_CACHE' = StoreToken(TOKEN_CACHE, CONFIG.static_token)
    /\ Goto(t, "l53")
    /\ UNCHANGED <<CONFIG, lastStored, invalidated, cache, clock, endpoint, locals>>

\* Line 53: TOKEN_CACHE["expiry"] = datetime.now() + CONFIG["token_refresh"].
L53(t) ==
    /\ pc[t] = "l53"
    /\ TOKEN_CACHE' = StoreExpiry(TOKEN_CACHE, now)
    /\ Goto(t, "l55")
    /\ UNCHANGED <<CONFIG, lastStored, invalidated, cache, clock, endpoint, locals>>

\* Lines 55 and 74: return TOKEN_CACHE["value"]. Line 169 assigns it to `token`
\* and lines 170-181 send it to the data endpoint as "Bearer {token}", whatever
\* it is; the thread then awaits the answer at line 184.
ReturnToken(t) ==
    /\ token' = [token EXCEPT ![t] = TOKEN_CACHE.value]
    /\ Goto(t, "l184")
    /\ UNCHANGED <<CONFIG, shared, cache, clock, endpoint, vat, posts, rc, rv>>

L55(t) == pc[t] = "l55" /\ ReturnToken(t)

\* A single-flight variant of the fetch: a caller that finds a request to the
\* token endpoint in flight joins it instead of sending its own.
PostSingleFlight(t) ==
    /\ IF \E u \in Threads : pc[u] = "l67"
         THEN /\ req' = [req EXCEPT ![t] = req[CHOOSE u \in Threads : pc[u] = "l67"]]
              /\ calls' = calls
         ELSE /\ calls < MaxCalls
              /\ calls' = calls + 1
              /\ req' = [req EXCEPT ![t] = calls + 1]
    /\ posts' = [posts EXCEPT ![t] = @ + 1]
    /\ Goto(t, "l67")

\* Lines 59-66: requests.post to the token endpoint, with whatever credentials
\* CONFIG holds (f"{None}:{None}" when they are missing); the thread then awaits
\* the answer at line 67. No lock or flag is consulted.
Post(t) ==
    /\ calls < MaxCalls
    /\ calls' = calls + 1
    /\ req' = [req EXCEPT ![t] = calls + 1]
    /\ posts' = [posts EXCEPT ![t] = @ + 1]
    /\ Goto(t, "l67")

\* Line 57, first operand: not TOKEN_CACHE["value"]. A falsy value enters the
\* fetch; a truthy one goes on to the second operand.
L57(t) ==
    /\ pc[t] = "l57"
    /\ IF ~Truthy(TOKEN_CACHE.value)
         THEN Post(t)
         ELSE Goto(t, "l57b") /\ UNCHANGED <<calls, req, posts>>
    /\ UNCHANGED <<CONFIG, shared, cache, clock, vat, token, rc, rv>>

\* An exception that only the handler of line 215 catches: the view returns 500.
Raise500(t) ==
    /\ rv' = [rv EXCEPT ![t] = Response(500, 0, "")]
    /\ Goto(t, "ret")

\* Line 57, second operand, evaluated when the value read was truthy. Comparing a
\* datetime with the None of a never-assigned expiry raises TypeError.
L57b(t) ==
    /\ pc[t] = "l57b"
    /\ IF TOKEN_CACHE.expiry = NoExpiry
         THEN Raise500(t) /\ UNCHANGED <<calls, req, posts>>
         ELSE IF Expired(now, TOKEN_CACHE.expiry)
                THEN Post(t) /\ UNCHANGED rv
                ELSE Goto(t, "l74") /\ UNCHANGED <<calls, req, posts, rv>>
    /\ UNCHANGED <<CONFIG, shared, cache, clock, vat, token, rc>>

\* Lines 193-205: the HTTPError handler of company_info; a 401 clears the token.
HandleHTTPError(t, status, text) ==
    /\ IF status = 401
         THEN /\ TOKEN_CACHE' = Invalidate(TOKEN_CACHE)
              /\ invalidated' = TRUE
         ELSE UNCHANGED <<TOKEN_CACHE, invalidated>>
    /\ rv' = [rv EXCEPT ![t] = Response(502, status, text)]
    /\ Goto(t, "ret")
    /\ UNCHANGED lastStored

\* The answer to the thread's POST has arrived.
Received(t) == req' = [req EXCEPT ![t] = 0]

\* The bodies a 2xx answer of the token endpoint may carry: a fresh token, an
\* empty token, or no token field at all (.get("token") is then None).
TokenBodies(t) == {FreshToken(req[t]), "", None}

\* The token endpoint answers 2xx (it does so only to configured credentials);
\* line 67 passes and line 69 stores the body's token.
TokenOk(t) ==
    /\ pc[t] = "l67"
    /\ CONFIG.email /= None /\ CONFIG.api_key /= None
    /\ \E body \in TokenBodies(t) :
        /\ TOKEN_CACHE' = StoreToken(TOKEN_CACHE, body)
        /\ lastStored' = body
    /\ invalidated' = FALSE
    /\ Received(t)
    /\ Goto(t, "l70")
    /\ UNCHANGED <<CONFIG, cache, clock, calls, locals>>

\* The token endpoint answers non-2xx: raise_for_status() raises HTTPError, line 78
\* re-raises it and the handler of line 193 takes it.
TokenHttpError(t, status) ==
    /\ pc[t] = "l67"
    /\ HandleHTTPError(t, status, "token")
    /\ Received(t)
    /\ UNCHANGED <<CONFIG, cache, clock, calls, vat, token, posts, rc>>

\* The POST times out: the handler of line 207 answers 504.
TokenTimeout(t) ==
    /\ pc[t] = "l67"
    /\ rv' = [rv EXCEPT ![t] = Response(504, 0, "")]
    /\ Received(t)
    /\ Goto(t, "ret")
    /\ UNCHANGED <<CONFIG, shared, cache, clock, calls, vat, token, posts, rc>>

\* The POST fails otherwise (connection error, a body that is not JSON).
TokenException(t) ==
    /\ pc[t] = "l67"
    /\ Raise500(t)
    /\ Received(t)
    /\ UNCHANGED <<CONFIG, shared, cache, clock, calls, vat, token, posts, rc>>

\* Line 70.
L70(t) ==
    /\ pc[t] = "l70"
    /\ TOKEN_CACHE' = StoreExpiry(TOKEN_CACHE, now)
    /\ Goto(t, "l71")
    /\ UNCHANGED <<CONFIG, lastStored, invalidated, cache, clock, endpoint, locals>>

\* Line 71, TOKEN_CACHE["refresh_count"] += 1: the read ...
L71(t) ==
    /\ pc[t] = "l71"
    /\ rc' = [rc EXCEPT ![t] = TOKEN_CACHE.refresh_count]
    /\ Goto(t, "l71w")
    /\ UNCHANGED <<CONFIG, shared, cache, clock, endpoint, vat, token, posts, rv>>

\* ... and the write.
L71w(t) ==
    /\ pc[t] = "l71w"
    /\ TOKEN_CACHE' = [TOKEN_CACHE EXCEPT !.refresh_count = rc[t] + 1]
    /\ rc' = [rc EXCEPT ![t] = 0]
    /\ Goto(t, "l72")
    /\ UNCHANGED <<CONFIG, lastStored, invalidated, cache, clock, endpoint, vat, token, posts, rv>>

\* Line 72: the f-string slices TOKEN_CACHE['value'][:6] whatever the log level;
\* slicing None raises TypeError.
L72(t) ==
    /\ pc[t] = "l72"
    /\ IF TOKEN_CACHE.value = None
         THEN Raise500(t)
         ELSE Goto(t, "l74") /\ UNCHANGED rv
    /\ UNCHANGED <<CONFIG, shared, cache, clock, endpoint, vat, token, posts, rc>>

L74(t) == pc[t] = "l74" /\ ReturnToken(t)

(* ---------------------------------------------------------- company_info *)

\* Line 153, cache hit: the decorator finds a stored response for the request's
\* key and the view does not run.
ServeCached(t, v) ==
    /\ pc[t] = "idle"
    /\ CacheHit(v)
    /\ vat' = [vat EXCEPT ![t] = v]
    /\ rv' = [rv EXCEPT ![t] = cache[v].rv]
    /\ Goto(t, "hit")
    /\ UNCHANGED <<CONFIG, shared, cache, clock, endpoint, token, posts, rc>>

\* Line 153, cache miss: the decorator calls the view. Lines 161-169: a malformed
\* VAT code is answered 400, a well-formed one enters get_token().
Start(t, v) ==
    /\ pc[t] = "idle"
    /\ ~CacheHit(v)
    /\ vat' = [vat EXCEPT ![t] = v]
    /\ IF InvalidVat(v)
         THEN /\ rv' = [rv EXCEPT ![t] = Response(400, 0, "")]
              /\ Goto(t, "ret")
         ELSE /\ Goto(t, EnterGetToken)
              /\ UNCHANGED rv
    /\ UNCHANGED <<CONFIG, shared, cache, clock, endpoint, token, posts, rc>>

\* Lines 184-191: the data endpoint answers 2xx.
DataOk(t) ==
    /\ pc[t] = "l184"
    /\ rv' = [rv EXCEPT ![t] = Response(200, 0, "")]
    /\ Goto(t, "ret")
    /\ UNCHANGED <<CONFIG, shared, cache, clock, endpoint, vat, token, posts, rc>>

\* Line 184 raises HTTPError for a non-2xx answer of the data endpoint.
DataHttpError(t, status) ==
    /\ pc[t] = "l184"
    /\ HandleHTTPError(t, status, "data")
    /\ UNCHANGED <<CONFIG, cache, clock, endpoint, vat, token, posts, rc>>

\* Lines 207-213.
DataTimeout(t) ==
    /\ pc[t] = "l184"
    /\ rv' = [rv EXCEPT ![t] = Response(504, 0, "")]
    /\ Goto(t, "ret")
    /\ UNCHANGED <<CONFIG, shared, cache, clock, endpoint, vat, token, posts, rc>>

\* Lines 215-221.
DataException(t) ==
    /\ pc[t] = "l184"
    /\ Raise500(t)
    /\ UNCHANGED <<CONFIG, shared, cache, clock, endpoint, vat, token, posts, rc>>

\* The request is over: its thread is free for the next one.
Finish(t) ==
    /\ vat' = [vat EXCEPT ![t] = VatGood]
    /\ rv' = [rv EXCEPT ![t] = NoResponse]
    /\ token' = [token EXCEPT ![t] = Unset]
    /\ posts' = [posts EXCEPT ![t] = 0]
    /\ Goto(t, "idle")
    /\ UNCHANGED rc

\* The view has returned: the decorator stores the response, whatever its status,
\* for CACHE_DEFAULT_TIMEOUT seconds and hands it to the client.
Ret(t) ==
    /\ pc[t] = "ret"
    /\ cache' = CacheSet(cache, vat[t], rv[t])
    /\ Finish(t)
    /\ UNCHANGED <<CONFIG, shared, clock, endpoint>>

\* The decorator hands the stored response to the client.
RetCached(t) ==
    /\ pc[t] = "hit"
    /\ Finish(t)
    /\ UNCHANGED <<CONFIG, shared, cache, clock, endpoint>>

(* ----------------------------------------------------------------- clock *)

\* SimpleCache answers None for an entry whose expiry has passed, as for a key it
\* never held, and a later set() overwrites it: such an entry is no entry.
Live(c, n) == [v \in VatCodes |-> IF c[v].expires > n THEN c[v] ELSE NoEntry]

\* The steps the clock advances by: the response cache's timeout and the token's
\* refresh interval.
TickSteps == {CACHE_DEFAULT_TIMEOUT, token_refresh}

Tick(d) ==
    /\ ticks < MaxTicks
    /\ now' = now + d
    /\ ticks' = ticks + 1
    /\ cache' = Live(cache, now + d)
    /\ UNCHANGED <<CONFIG, shared, endpoint, pc, locals>>

(* ------------------------------------------------------------------ spec *)

Next ==
    \/ \E t \in Threads, v \in VatCodes : ServeCached(t, v)
    \/ \E t \in Threads, v \in VatCodes : Start(t, v)
    \/ \E t \in Threads : L51(t)
    \/ \E t \in Threads : L52(t)
    \/ \E t \in Threads : L53(t)
    \/ \E t \in Threads : L55(t)
    \/ \E t \in Threads : L57(t)
    \/ \E t \in Threads : L57b(t)
    \/ \E t \in Threads : TokenOk(t)
    \/ \E t \in Threads, s \in ErrorStatuses : TokenHttpError(t, s)
    \/ \E t \in Threads : TokenTimeout(t)
    \/ \E t \in Threads : TokenException(t)
    \/ \E t \in Threads : L70(t)
    \/ \E t \in Threads : L71(t)
    \/ \E t \in Threads : L71w(t)
    \/ \E t \in Threads : L72(t)
    \/ \E t \in Threads : L74(t)
    \/ \E t \in Threads : DataOk(t)
    \/ \E t \in Threads, s \in ErrorStatuses : DataHttpError(t, s)
    \/ \E t \in Threads : DataTimeout(t)
    \/ \E t \in Threads : DataException(t)
    \/ \E t \in Threads : Ret(t)
    \/ \E t \in Threads : RetCached(t)
    \/ \E d \in TickSteps : Tick(d)

Spec == Init /\ [][Next]_vars

(* ---------------------------------------------------------------- claims *)

\* The thread's get_token() has returned and its result is on its way to the data
\* endpoint in the Authorization header.
Returned(t) == pc[t] = "l184"

\* The thread takes a step from the given line.
Leaves(t, line) == pc[t] = line /\ pc'[t] /= line

\* C1: in Static mode every get_token() returns exactly the configured static
\* token and the token endpoint is never called, also while other requests run
\* concurrently. (Stated as claimed; the code violates it.)
C1_StaticAlwaysConfigured ==
    StaticMode =>
        /\ calls = 0
        /\ \A t \in Threads : Returned(t) => token[t] = CONFIG.static_token

\* C2: in Dynamic mode a fetch that succeeds stores the token it received and
\* sets expires_at = now + refresh_interval, strictly in the future; a get_token()
\* that then finds the token cached before its expiry makes no request to the
\* token endpoint, and, with no invalidation since the fetch, returns that very
\* token.
C2_Step ==
    DynamicMode =>
        \A t \in Threads :
            /\ (Leaves(t, "l67") /\ pc'[t] = "l70")
                  => TOKEN_CACHE'.value = lastStored'
            /\ Leaves(t, "l70")
                  => /\ TOKEN_CACHE'.expiry = now + token_refresh
                     /\ TOKEN_CACHE'.expiry > now
            /\ (Leaves(t, "l57") /\ Truthy(TOKEN_CACHE.value))
                  => pc'[t] = "l57b" /\ calls' = calls
            /\ (Leaves(t, "l57b") /\ TOKEN_CACHE.expiry /= NoExpiry
                    /\ now < TOKEN_CACHE.expiry)
                  => pc'[t] = "l74" /\ calls' = calls /\ posts'[t] = 0
            /\ (Leaves(t, "l74") /\ posts[t] = 0 /\ ~invalidated /\ Truthy(lastStored))
                  => Returned(t)' /\ token'[t] = lastStored /\ calls' = calls

\* C2: every step of every behaviour keeps the five properties above: the token
\* a fetch stored is reused, unchanged and without a request, until it expires.
C2_CachedTokenReused == [][C2_Step]_vars

\* Witness of C2: later than the fetch and before the expiry it set, a get_token()
\* that made no request has returned the token that fetch stored.
W_C2 ==
    /\ DynamicMode
    /\ \E t \in Threads :
        /\ Returned(t) /\ posts[t] = 0
        /\ Truthy(token[t]) /\ token[t] = lastStored /\ ~invalidated
        /\ calls = 1
        /\ 0 < now /\ now < TOKEN_CACHE.expiry

\* C3: a get_token() that fails on the token endpoint has made max_retries + 1
\* attempts before it raises. (Stated as claimed; the code violates it.)
C3_RetriesBeforeFailure ==
    DynamicMode =>
        \A t \in Threads :
            (pc[t] = "ret" /\ token[t] = Unset /\ posts[t] >= 1)
                => posts[t] = max_retries + 1

\* C4: in Dynamic mode a get_token() that runs its test of line 57 after a 401
\* has invalidated the token, and before any fetch has stored a new one, sends a
\* request to the token endpoint, whatever TOKEN_CACHE["expiry"] holds.
C4_Step ==
    DynamicMode =>
        \A t \in Threads :
            (Leaves(t, "l57") /\ invalidated)
                => /\ pc'[t] = "l67"
                   /\ calls' = calls + 1
                   /\ req'[t] = calls'
                   /\ posts'[t] = 1

\* C4: in every step, a test of line 57 made after an invalidation enters the fetch.
C4_InvalidationForcesFetch == [][C4_Step]_vars

\* Witness of C4: a request to the token endpoint is in flight after an
\* invalidation, while the expiry of the invalidated token still lies ahead.
W_C4 ==
    /\ DynamicMode
    /\ invalidated
    /\ TOKEN_CACHE.value = None
    /\ TOKEN_CACHE.expiry > now
    /\ \E t \in Threads :
        /\ pc[t] = "l67" /\ posts[t] = 1 /\ req[t] = 2
        /\ \A u \in Threads \ {t} : pc[u] = "idle"

\* C5 as claimed: with a token cached, get_token() is a cache hit only while
\* now < expires_at and performs one new request once now >= expires_at, the
\* instant now = expires_at included. (The code violates it at that instant.)
C5_OriginalStep ==
    DynamicMode =>
        \A t \in Threads :
            (Leaves(t, "l57b") /\ TOKEN_CACHE.expiry /= NoExpiry)
                => IF now < TOKEN_CACHE.expiry
                     THEN pc'[t] = "l74" /\ calls' = calls
                     ELSE pc'[t] = "l67" /\ calls' = calls + 1 /\ posts'[t] = 1

\* C5 as claimed: in every step, the expiry test refetches when now >= expires_at.
C5_RefetchAtExpiry == [][C5_OriginalStep]_vars

\* C5 as amended: with a token cached, get_token() is a cache hit while
\* now <= expires_at, the instant now = expires_at included, and performs exactly
\* one new request once now > expires_at.
C5_AmendedStep ==
    DynamicMode =>
        \A t \in Threads :
            /\ (Leaves(t, "l57b") /\ TOKEN_CACHE.expiry /= NoExpiry)
                => IF now <= TOKEN_CACHE.expiry
                     THEN pc'[t] = "l74" /\ calls' = calls /\ posts'[t] = 0
                     ELSE pc'[t] = "l67" /\ calls' = calls + 1 /\ posts'[t] = 1
            /\ posts'[t] <= 1

\* C5 as amended: in every step, the expiry test refetches only when
\* now > expires_at, and a get_token() call never makes a second request.
C5_RefetchAfterExpiry == [][C5_AmendedStep]_vars

\* Witness of C5: at the instant now = expires_at a get_token() has taken the
\* cached token without a request.
W_C5 ==
    /\ DynamicMode
    /\ \E t \in Threads :
        /\ pc[t] = "l74" /\ posts[t] = 0
        /\ Truthy(TOKEN_CACHE.value)
        /\ now = TOKEN_CACHE.expiry

\* C6: get_token() never returns an absent or empty token: what it hands to the
\* downstream request is a non-empty string. (Stated as claimed; the code
\* violates it.)
C6_NeverEmptyToken ==
    DynamicMode =>
        \A t \in Threads : Returned(t) => Truthy(token[t])

\* C7: with no static token and the e-mail or the API key missing, no request
\* reaches the token endpoint. (Stated as claimed; the code violates it.)
MissingCredentials ==
    /\ ~Truthy(CONFIG.static_token)
    /\ (CONFIG.email = None \/ CONFIG.api_key = None)

\* C7: with the credentials missing, the token endpoint receives no request.
C7_FailFastWithoutCredentials ==
    MissingCredentials => calls = 0 /\ \A t \in Threads : posts[t] = 0

\* C8: handling a downstream 401 clears both the token and its expiry in Dynamic
\* mode and changes nothing in Static mode, where the stored token, once set, is
\* never changed. (Stated as claimed; the code violates it.)
C8_Step ==
    \A t \in Threads :
        /\ (pc[t] = "l184" /\ rv'[t] = Response(502, 401, "data"))
              => IF DynamicMode
                   THEN TOKEN_CACHE'.value = None /\ TOKEN_CACHE'.expiry = NoExpiry
                   ELSE TOKEN_CACHE' = TOKEN_CACHE
        /\ (StaticMode /\ TOKEN_CACHE.value = CONFIG.static_token)
              => TOKEN_CACHE'.value = TOKEN_CACHE.value

\* C8: in every step, the 401 handler has the frame effect claimed.
C8_InvalidateFrame == [][C8_Step]_vars

\* C9: nothing serialises the fetches of get_token(): every thread that awaits an
\* answer of the token endpoint awaits the answer to a request of its own, which
\* no other thread shares, however many are in flight.
InFlight == {t \in Threads : pc[t] = "l67"}

\* C9: each thread in flight has issued a request of its own.
C9_EachIssuesItsOwnFetch ==
    DynamicMode =>
        /\ \A t \in InFlight : req[t] \in 1..calls /\ posts[t] = 1
        /\ \A t \in InFlight : \A u \in InFlight \ {t} : req[u] /= req[t]
        /\ Cardinality(InFlight) <= calls

\* Witness of C9: two requests found the token missing and both have a fetch in
\* flight at once, for the same missing token.
W_C9 ==
    /\ DynamicMode
    /\ TOKEN_CACHE.value = None
    /\ TOKEN_CACHE.refresh_count = 0
    /\ Cardinality(InFlight) >= 2
    /\ calls >= 2

\* C10: in Dynamic mode, once a 401 has invalidated a fetched token, a lookup is
\* not answered from the response cache with the stored 401 error. (Stated as
\* claimed; the code violates it.)
C10_SelfHealNotCached ==
    DynamicMode =>
        \A t \in Threads :
            (pc[t] = "hit" /\ invalidated) => rv[t] /= Response(502, 401, "data")

\* C11: a downstream 401 discards only the token that was rejected. When the
\* request that receives the 401 sent a token T1 and the cache holds by then a
\* different, newer token T2, handling the 401 leaves T2 in the cache.
C11_Step ==
    DynamicMode =>
        \A t \in Threads :
            (/\ pc[t] = "l184"
             /\ rv'[t] = Response(502, 401, "data")
             /\ Truthy(token[t])
             /\ Truthy(TOKEN_CACHE.value)
             /\ TOKEN_CACHE.value /= token[t])
                => TOKEN_CACHE'.value = TOKEN_CACHE.value

\* C11: in every step, the 401 of an older token leaves a newer cached token in
\* place. (Stated as claimed; the code violates it.)
C11_OnlyRejectedTokenCleared == [][C11_Step]_vars

====
